---- MODULE Spec2Model ----
(***************************************************************************)
(* Student Feedback Sentiment Dashboard (src/app.py).                      *)
(*                                                                         *)
(* A Streamlit script: every user action (a button press, a selection      *)
(* change) re-runs the whole script for that session.  One action of this  *)
(* module is one such run: the handler of the pressed button followed by   *)
(* the display section (lines 70-129).                                     *)
(*                                                                         *)
(* State of the process: the st.cache_data cache of get_sentiment (shared  *)
(* by every session of the process), the CSV file on disk.  State of a     *)
(* session: st.session_state (the key "df"), the selectbox widget value.   *)
(* Row labels are 0-based as in pandas; sequences are 1-based, so the row  *)
(* at position p has label p - 1.                                          *)
(***************************************************************************)
EXTENDS Integers, Sequences, FiniteSets, TLC

\* ---------------------------------------------------------------- constants

\* df.head(50), line 53
LoadCap == 50
\* .loc[:4, "Sentiment"], line 63: a label slice, both ends included
LocStop == 4
\* ["comment"].head(5), line 63
HeadCount == 5

\* ------------------------------------------------------------------- bounds

\* rows of the CSV file on disk
MaxRows == 6
\* the CSV rows repeat a pattern of this many rows
PatLen == 2
\* rows of the CSV file when two sessions run
MaxRowsTwo == 1
\* remote calls recorded per text (the cache keeps it at 1)
MaxCalls == 3

\* --------------------------------------------------------------- vocabulary

Sessions == {"A", "B"}
\* the sessions that act under Spec
SoloSessions == {"A"}

\* the values a comment cell, or an argument of get_sentiment, can take
EmptyText == ""
NoneText == "<None>"
NaN == "<NaN>"
Texts == {"great class", "terrible pacing"}
\* values for which `not text` holds (line 23)
Falsy == {EmptyText, NoneText}
AllTexts == Texts \cup Falsy \cup {NaN}
\* read_csv turns an empty cell into NaN
Comments == Texts \cup {NaN}

Ids == {"s1", "s2"}
AllIds == "All IDs"

Labels == {"Positive", "Negative", "Neutral"}
\* what the endpoint may answer, whitespace removed
Cores == Labels \cup {"positive."}
\* a reply of the endpoint: it raises, or has no content, or has content
\* made of a core and, with pad, whitespace around it
Replies ==
    {[kind |-> "error", pad |-> FALSE, core |-> ""],
     [kind |-> "nocontent", pad |-> FALSE, core |-> ""],
     [kind |-> "ok", pad |-> TRUE, core |-> "Positive"]}
    \cup {[kind |-> "ok", pad |-> FALSE, core |-> c] : c \in Cores}

\* a cell of the Sentiment column that holds no value (NaN)
NoValue == "<NaN>"

Min(a, b) == IF a < b THEN a ELSE b

\* ------------------------------------------------------------------- tables

\* the rows 1..n of a pattern repeated
Cycle(p, n) == [i \in 1..n |-> p[((i - 1) % Len(p)) + 1]]

\* the Id column: two students in turn, or one student
IdPatterns == {<<"s1", "s2">>, <<"s1", "s1">>}

ColumnSets == {{"Id", "comment"}, {"comment"}, {"Id"}}

\* a table: its number of rows and its columns, each a sequence of n cells
MkTable(n, cols, ids, comments) ==
    [n |-> n,
     data |-> [c \in cols |-> IF c = "Id" THEN Cycle(ids, n)
                              ELSE Cycle(comments, n)]]

\* the CSV files considered
Files ==
    {MkTable(n, cols, ids, comments) :
        n \in 0..MaxRows, cols \in ColumnSets,
        ids \in IdPatterns, comments \in [1..PatLen -> Comments]}

Columns(df) == DOMAIN df.data

\* df.head(k): the first k rows
head(df, k) ==
    [n |-> Min(df.n, k),
     data |-> [c \in Columns(df) |-> SubSeq(df.data[c], 1, Min(df.n, k))]]

VARIABLES
    csv,            \* the content of data/feedback student.csv
    session_state,  \* per session: a function whose domain is {} or {"df"}
    selected_id,    \* per session: the selectbox value
    cache,          \* st.cache_data of get_sentiment: text -> cached entry
    api_calls,      \* per text: the results of the remote calls made for it
    own,            \* per session: the texts it has itself passed to get_sentiment
    view,           \* per session: what the last run of the script showed
    last_call       \* the last direct call of get_sentiment and what it returned

vars ==
    <<csv, session_state, selected_id, cache, api_calls, own, view,
      last_call>>

\* ------------------------------------------------------------ get_sentiment

\* content.strip(), line 36: the whitespace around the core is removed
strip(reply) == reply.core

\* `not text` alone: pd.isna forgotten
IsMissingNotOnly(text) == text \in Falsy

\* `not text or pd.isna(text)`, line 23
IsMissing(text) == text \in Falsy \/ text = NaN

\* the remote failure propagates to the caller: no try/except
GetSentimentNoCatch(text, reply) ==
    IF IsMissing(text)
    THEN [ret |-> "Neutral", called |-> FALSE, error |-> FALSE, raised |-> FALSE]
    ELSE IF reply.kind = "ok"
         THEN [ret |-> strip(reply), called |-> TRUE, error |-> FALSE,
               raised |-> FALSE]
         ELSE [ret |-> "Neutral", called |-> TRUE, error |-> FALSE,
               raised |-> TRUE]

\* the body of get_sentiment, lines 22-39, given the endpoint's reply:
\* ret the value returned, called whether the remote call was made, error
\* whether st.error was called, raised whether an exception leaves the body
get_sentiment(text, reply) ==
    IF IsMissing(text)
    THEN [ret |-> "Neutral", called |-> FALSE, error |-> FALSE, raised |-> FALSE]
    ELSE IF reply.kind = "ok"
         THEN [ret |-> strip(reply), called |-> TRUE, error |-> FALSE,
               raised |-> FALSE]
         \* create() raised, or content is None and .strip() raised
         ELSE [ret |-> "Neutral", called |-> TRUE, error |-> TRUE,
               raised |-> FALSE]

\* a result that reported an error is not stored
StoreResultUnlessError(c, text, r) ==
    IF r.error THEN c ELSE c @@ (text :> [value |-> r.ret, error |-> r.error])

\* st.cache_data stores the value returned and the st elements to replay
StoreResult(c, text, r) == c @@ (text :> [value |-> r.ret, error |-> r.error])

\* what a remote call is recorded as
Logged(r) == IF r.error \/ r.raised THEN "<error>" ELSE r.ret

\* a miss, line 21: the body ran and returned r; its result is stored
Miss(c, calls, text, r) ==
    [cache |-> IF r.raised THEN c ELSE StoreResult(c, text, r),
     api_calls |-> IF r.called
                   THEN [calls EXCEPT ![text] = Append(@, Logged(r))]
                   ELSE calls,
     ret |-> r.ret, called |-> r.called, error |-> r.error, raised |-> r.raised]

\* a call of the decorated function, line 21: a hit returns the entry and
\* replays its elements, a miss runs the body and stores what it returned
CachedCall(c, calls, text, reply) ==
    IF text \in DOMAIN c
    THEN [cache |-> c, api_calls |-> calls, ret |-> c[text].value,
          called |-> FALSE, error |-> c[text].error, raised |-> FALSE]
    ELSE Miss(c, calls, text, get_sentiment(text, reply))

\* the reply the endpoint gives for a text in this run
ReplyFor(remote, text) ==
    IF text \in DOMAIN remote THEN remote[text]
    ELSE [kind |-> "error", pad |-> FALSE, core |-> ""]

\* the batch after get_sentiment(text) returned r for row i
Record(acc, i, text, r) ==
    IF r.raised
    THEN [acc EXCEPT !.raised = TRUE, !.api_calls = r.api_calls,
                     !.seen = @ \cup {text},
                     !.failed = @ \cup (IF r.called THEN {i} ELSE {}),
                     !.made = @ + (IF r.called THEN 1 ELSE 0)]
    ELSE [cache |-> r.cache, api_calls |-> r.api_calls,
          values |-> Append(acc.values, r.ret),
          seen |-> acc.seen \cup {text},
          errors |-> acc.errors \cup (IF r.error THEN {i} ELSE {}),
          failed |-> acc.failed \cup (IF r.called /\ r.error THEN {i} ELSE {}),
          made |-> acc.made + (IF r.called THEN 1 ELSE 0),
          fault |-> acc.fault, raised |-> FALSE]

\* Series.apply(get_sentiment), line 63: the texts in order.  fault = i > 0:
\* an exception raised outside get_sentiment's try block while row i is
\* processed.  acc: the cache and the remote calls so far, values the values
\* returned, seen the texts passed, errors the rows that showed an API error,
\* failed the rows whose remote call failed, made the remote calls made.
RECURSIVE Apply(_, _, _, _)
Apply(texts, remote, fault, acc) ==
    IF acc.raised \/ Len(acc.values) >= Len(texts) THEN acc
    ELSE IF fault = Len(acc.values) + 1 THEN [acc EXCEPT !.raised = TRUE]
    ELSE Apply(texts, remote, fault,
               Record(acc, Len(acc.values) + 1, texts[Len(acc.values) + 1],
                      CachedCall(acc.cache, acc.api_calls,
                                 texts[Len(acc.values) + 1],
                                 ReplyFor(remote, texts[Len(acc.values) + 1]))))

\* the labels 0..stop excluded
LocLabelsExclusive(n, stop) == {l \in 0..(n - 1) : l < stop}

\* .loc[:stop]: the row labels up to stop, stop included
LocLabels(n, stop) == {l \in 0..(n - 1) : l <= stop}

\* df.loc[:4, "Sentiment"] = series, line 63: the column is created when
\* absent; a row of the slice takes the series' value at its label (NaN when
\* the series has none), a row outside keeps its cell
LocAssign(df, series) ==
    LET old == IF "Sentiment" \in Columns(df) THEN df.data["Sentiment"]
               ELSE [p \in 1..df.n |-> NoValue]
        col == [p \in 1..df.n |->
                  IF (p - 1) \in LocLabels(df.n, LocStop)
                  THEN IF p <= Len(series) THEN series[p] ELSE NoValue
                  ELSE old[p]]
    IN  [n |-> df.n,
         data |-> [c \in Columns(df) \cup {"Sentiment"} |->
                      IF c = "Sentiment" THEN col ELSE df.data[c]]]

\* ------------------------------------------------------------------ display

MsgLoaded == "Dataset loaded successfully!"
MsgNotFound == "Dataset not found. Please check the file path."
MsgCompleted == "Sentiment analysis completed!"
MsgWrong == "Something went wrong"
MsgIngest == "Please ingest the dataset first."
MsgApiError == "API error"
MsgNoId == "No 'Id' column found in the dataset. Showing all data."

\* sentiment_order, line 99
sentiment_order == <<"Negative", "Neutral", "Positive">>

\* the category of a value no category matches
NaNCategory == "<NaN>"

\* the elements of a sequence
Range(seq) == {seq[i] : i \in DOMAIN seq}

\* the positions of the rows shown, lines 75-86
Filtered(df, sel) ==
    IF "Id" \in Columns(df) /\ sel # AllIds
    THEN {p \in 1..df.n : df.data["Id"][p] = sel}
    ELSE 1..df.n

\* filtered_df["Sentiment"].value_counts(), line 95: the values present (NaN
\* cells are not counted), each with its number of rows
ValueCounts(df, rows) ==
    LET col == df.data["Sentiment"]
        present_values == {col[p] : p \in rows} \ {NoValue}
    IN  [v \in present_values |-> Cardinality({p \in rows : col[p] = v})]

\* line 104: sentiment_order restricted to the values present
FilteredOrder(existing) == SelectSeq(sentiment_order, LAMBDA v : v \in existing)

\* lines 108-113: the Sentiment of each row of sentiment_counts becomes its
\* category (NaN when it is not in filtered_order) and the rows are sorted by
\* category, NaN last
SortedCounts(counts) ==
    LET order == FilteredOrder(DOMAIN counts)
        known == [i \in 1..Len(order) |->
                    [Sentiment |-> order[i], Count |-> counts[order[i]]]]
        other == DOMAIN counts \ Range(order)
        \* at most one value outside the order occurs in this model
        rest == IF other = {} THEN <<>>
                ELSE LET v == CHOOSE v \in other : TRUE IN
                     <<[Sentiment |-> NaNCategory, Count |-> counts[v]]>>
    IN  known \o rest

Blank == [fatal |-> FALSE, table_shown |-> FALSE, rows |-> {},
          chart_shown |-> FALSE, bars |-> <<>>]

\* the display section of a run, lines 70-129
Display(ss, sel) ==
    IF "df" \notin DOMAIN ss THEN Blank
    ELSE LET df == ss["df"]
             rows == Filtered(df, sel)
         IN  \* filtered_df[["Id", "comment"]], line 89: a KeyError when one
             \* of the two columns is absent ends the run
             IF ~({"Id", "comment"} \subseteq Columns(df))
             THEN [Blank EXCEPT !.fatal = TRUE, !.rows = rows]
             ELSE IF "Sentiment" \notin Columns(df)
             THEN [Blank EXCEPT !.table_shown = TRUE, !.rows = rows]
             ELSE [Blank EXCEPT !.table_shown = TRUE, !.rows = rows,
                                !.chart_shown = TRUE,
                                !.bars = SortedCounts(ValueCounts(df, rows))]

\* the warning of line 85
IdWarning(ss) ==
    IF "df" \in DOMAIN ss /\ "Id" \notin Columns(ss["df"]) THEN {MsgNoId} ELSE {}

\* what the handler of a run did.  found: the path resolved (a load).  Of a
\* batch: ran, raised (an exception reached line 65), fault (the row at which
\* one escaped from outside get_sentiment, 0 for none), classified (values
\* returned), failed (rows whose remote call failed), made (remote calls),
\* solo (remote calls had this session been the only one), before (the
\* session state when the button was pressed)
NoBatch == [found |-> TRUE, ran |-> FALSE, raised |-> FALSE, fault |-> 0,
            classified |-> 0, failed |-> {}, made |-> 0, solo |-> 0,
            before |-> <<>>]

\* a run: the button pressed, what its handler did, the messages, the display
Shown(pressed, msgs, run, ss, sel) ==
    [pressed |-> pressed, messages |-> msgs \cup IdWarning(ss), run |-> run,
     display |-> Display(ss, sel)]

\* ------------------------------------------------------------------ actions

NoCall == [text |-> "<no call>", ret |-> "", called |-> FALSE]

Init ==
    /\ csv \in Files
    /\ session_state = [s \in Sessions |-> <<>>]
    /\ selected_id = [s \in Sessions |-> AllIds]
    /\ cache = <<>>
    /\ api_calls = [t \in AllTexts |-> <<>>]
    /\ own = [s \in Sessions |-> {}]
    /\ view = [s \in Sessions |-> Shown("none", {}, NoBatch, <<>>, AllIds)]
    /\ last_call = NoCall

\* the table is stored in every session
StoreDfEverywhere(all, s, df) == [t \in Sessions |-> ("df" :> df)]

\* st.session_state["df"] = ..., line 53: the pressing session's state
StoreDf(all, s, df) == [all EXCEPT ![s] = ("df" :> df)]

\* the failed load drops the stored table
OnFileNotFoundDrop(ss) == <<>>

\* except FileNotFoundError, lines 55-56: a message, nothing stored
OnFileNotFound(ss) == ss

\* "Load Dataset" pressed in session s, lines 49-56, then the display.
\* found: whether the path resolves when read_csv opens it
LoadDataset(s) ==
    \E found \in BOOLEAN :
        /\ session_state' =
              IF found THEN StoreDf(session_state, s, head(csv, LoadCap))
              ELSE [session_state EXCEPT ![s] = OnFileNotFound(@)]
        /\ view' = [view EXCEPT ![s] =
                      Shown("load", IF found THEN {MsgLoaded} ELSE {MsgNotFound},
                            [NoBatch EXCEPT !.found = found],
                            session_state'[s], selected_id[s])]
        /\ UNCHANGED <<csv, selected_id, cache, api_calls, own, last_call>>

\* the values computed before the exception are written
OnBatchErrorPartial(df, values) == LocAssign(df, values)

\* except Exception, lines 65-66: the assignment of line 63 did not happen
OnBatchError(df, values) == df

\* the texts the batch reaches: all of them, or those before the fault
Reached(texts, fault) ==
    IF fault = 0 THEN texts ELSE SubSeq(texts, 1, fault - 1)

\* every way the batch of line 63 can go: the endpoint's reply for each text
\* it is called for, and the row, if any, at which an exception escapes
Batches(texts, c, calls) ==
    UNION {{Apply(texts, remote, fault,
                  [cache |-> c, api_calls |-> calls, values |-> <<>>,
                   seen |-> {}, errors |-> {}, failed |-> {}, made |-> 0,
                   fault |-> fault, raised |-> FALSE]) :
              remote \in [Range(Reached(texts, fault)) \ DOMAIN c -> Replies]} :
           fault \in 0..Len(texts)}

\* "Analyze Sentiment" pressed in session s, lines 59-68, then the display
AnalyzeSentiment(s) ==
    /\ \A t \in AllTexts : Len(api_calls[t]) < MaxCalls
    /\ IF "df" \notin DOMAIN session_state[s]
       THEN /\ view' = [view EXCEPT ![s] =
                          Shown("analyze", {MsgIngest}, NoBatch,
                                session_state[s], selected_id[s])]
            /\ UNCHANGED <<session_state, cache, api_calls, own>>
       ELSE LET df == session_state[s]["df"] IN
            IF "comment" \notin Columns(df)
            THEN \* KeyError at line 63, caught at line 65
                 /\ view' = [view EXCEPT ![s] =
                               Shown("analyze", {MsgWrong},
                                     [NoBatch EXCEPT !.ran = TRUE, !.raised = TRUE,
                                                     !.before = session_state[s]],
                                     session_state[s], selected_id[s])]
                 /\ UNCHANGED <<session_state, cache, api_calls, own>>
            ELSE LET texts == head(df, HeadCount).data["comment"] IN
                 \E b \in Batches(texts, cache, api_calls) :
                    LET batch == [found |-> TRUE, ran |-> TRUE,
                                  raised |-> b.raised, fault |-> b.fault,
                                  classified |-> Len(b.values),
                                  failed |-> b.failed, made |-> b.made,
                                  solo |-> Cardinality(
                                      {t \in b.seen : ~IsMissing(t)} \ own[s]),
                                  before |-> session_state[s]]
                    IN  /\ cache' = b.cache
                        /\ api_calls' = b.api_calls
                        /\ own' = [own EXCEPT ![s] = @ \cup b.seen]
                        /\ session_state' = [session_state EXCEPT ![s] =
                              ("df" :> IF b.raised THEN OnBatchError(df, b.values)
                                       ELSE LocAssign(df, b.values))]
                        /\ view' = [view EXCEPT ![s] =
                              Shown("analyze",
                                    (IF b.raised THEN {MsgWrong}
                                     ELSE {MsgCompleted})
                                    \cup (IF b.errors # {} THEN {MsgApiError}
                                          ELSE {}),
                                    batch, session_state'[s], selected_id[s])]
    /\ UNCHANGED <<csv, selected_id, last_call>>

\* the options of the selectbox, line 77
Options(df) == {AllIds} \cup Range(df.data["Id"])

\* "Choose a Student ID" changed in session s, line 77, then the display
ChooseStudentId(s) ==
    /\ "df" \in DOMAIN session_state[s]
    /\ "Id" \in Columns(session_state[s]["df"])
    /\ \E id \in Options(session_state[s]["df"]) \ {selected_id[s]} :
          /\ selected_id' = [selected_id EXCEPT ![s] = id]
          /\ view' = [view EXCEPT ![s] =
                        Shown("select", {}, NoBatch, session_state[s], id)]
    /\ UNCHANGED <<csv, session_state, cache, api_calls, own, last_call>>

\* get_sentiment called once with any argument
CallGetSentiment ==
    /\ \A t \in AllTexts : Len(api_calls[t]) < MaxCalls
    /\ \E text \in AllTexts, reply \in Replies :
          LET r == CachedCall(cache, api_calls, text, reply) IN
          /\ ~r.raised
          /\ cache' = r.cache
          /\ api_calls' = r.api_calls
          /\ last_call' = [text |-> text, ret |-> r.ret, called |-> r.called]
    /\ UNCHANGED <<csv, session_state, selected_id, own, view>>

Run(s) == LoadDataset(s) \/ AnalyzeSentiment(s) \/ ChooseStudentId(s)

\* one session
Next == \E s \in SoloSessions : Run(s)

Spec == Init /\ [][Next]_vars

\* two sessions of one process
NextTwo == \E s \in Sessions : Run(s)

\* the comments of the file two sessions read
CommentsTwo == {"great class", NaN}

InitTwo ==
    /\ Init
    /\ csv.n <= MaxRowsTwo
    /\ "comment" \in Columns(csv) => Range(csv.data["comment"]) \subseteq CommentsTwo

SpecTwo == InitTwo /\ [][NextTwo]_vars

\* get_sentiment alone
NextFn == CallGetSentiment

InitFn == Init /\ csv = MkTable(0, {"Id", "comment"}, <<"s1">>, <<NaN>>)

SpecFn == InitFn /\ [][NextFn]_vars

\* ------------------------------------------------------------------- claims

Loaded(s) == "df" \in DOMAIN session_state[s]

Table(s) == session_state[s]["df"]

\* the positions of the rows that carry a Sentiment value
Labelled(df) ==
    IF "Sentiment" \in Columns(df)
    THEN {p \in 1..df.n : df.data["Sentiment"][p] # NoValue}
    ELSE {}

\* the last run of session s was an Analyze whose batch completed
Completed(s) ==
    /\ view[s].pressed = "analyze"
    /\ view[s].run.ran
    /\ ~view[s].run.raised

\* the last run of session s was an Analyze whose batch an exception ended
Interrupted(s) ==
    /\ view[s].pressed = "analyze"
    /\ view[s].run.ran
    /\ view[s].run.raised

\* C1: in every reachable state no row at label 5 or more carries a Sentiment
\* value, and after a completed Analyze of a table of n rows exactly the
\* first min(5, n) rows carry one.
C1_PrefixLabelled ==
    \A s \in Sessions :
        Loaded(s) =>
            /\ Labelled(Table(s)) \subseteq 1..HeadCount
            /\ Completed(s) =>
                  Labelled(Table(s)) = 1..Min(HeadCount, Table(s).n)

\* a completed Analyze of a table of more than 5 rows, and one of fewer
C1_Witness ==
    \E s \in Sessions :
        /\ Loaded(s) /\ Completed(s)
        /\ Table(s).n > HeadCount
        /\ Labelled(Table(s)) = 1..HeadCount

\* C2: a call of get_sentiment with an empty or missing text ("", None, NaN)
\* returns Neutral and makes no remote call, whatever the cache holds; no
\* remote call is ever recorded for such a text.
C2_MissingIsNeutral ==
    /\ last_call.text \in {EmptyText, NoneText, NaN} =>
          last_call.ret = "Neutral" /\ ~last_call.called
    /\ \A t \in {EmptyText, NoneText, NaN} : api_calls[t] = <<>>

\* get_sentiment(NaN) called while the cache holds a result of a remote call
C2_Witness ==
    /\ last_call.text = NaN
    /\ last_call.ret = "Neutral"
    /\ \E t \in Texts : t \in DOMAIN cache /\ Len(api_calls[t]) = 1

\* the value get_sentiment returned when the remote call for t was first made
FirstLabel(t) ==
    IF api_calls[t][1] = "<error>" THEN "Neutral" ELSE api_calls[t][1]

\* C3: at most one remote call is ever made for a text, a failed one
\* included, and every Sentiment value of a row with that text is the value
\* the first call gave (Neutral when it failed).
C3_CalledOnce ==
    /\ \A t \in AllTexts : Len(api_calls[t]) <= 1
    /\ \A t \in Texts :
          t \in DOMAIN cache =>
              /\ Len(api_calls[t]) = 1
              /\ cache[t].value = FirstLabel(t)
    /\ \A s \in Sessions :
          Loaded(s) /\ "comment" \in Columns(Table(s)) =>
              \A p \in Labelled(Table(s)) :
                  Table(s).data["comment"][p] \in Texts =>
                      /\ Len(api_calls[Table(s).data["comment"][p]]) = 1
                      /\ Table(s).data["Sentiment"][p] =
                            FirstLabel(Table(s).data["comment"][p])

\* a completed Analyze that made no remote call, over a row whose text's only
\* remote call had failed
C3_Witness ==
    \E s \in Sessions :
        /\ Loaded(s) /\ Completed(s)
        /\ view[s].run.made = 0
        /\ \E p \in Labelled(Table(s)) :
              /\ Table(s).data["comment"][p] \in Texts
              /\ api_calls[Table(s).data["comment"][p]] = <<"<error>">>
              /\ Table(s).data["Sentiment"][p] = "Neutral"

\* C4: every value in the cache and every value of a Sentiment column is one
\* of Positive, Negative, Neutral.
C4_OnlyLabels ==
    /\ \A t \in DOMAIN cache : cache[t].value \in Labels
    /\ \A s \in Sessions :
          Loaded(s) =>
              \A p \in Labelled(Table(s)) :
                  Table(s).data["Sentiment"][p] \in Labels

\* C5: when the stored table has no Id column, the run warns, shows every
\* row, is not ended by an error, displays the table and, when a Sentiment
\* column exists, the chart.
C5_NoIdColumnGraceful ==
    \A s \in Sessions :
        Loaded(s) /\ "Id" \notin Columns(Table(s)) =>
            /\ MsgNoId \in view[s].messages
            /\ view[s].display.rows = 1..Table(s).n
            /\ ~view[s].display.fatal
            /\ view[s].display.table_shown
            /\ "Sentiment" \in Columns(Table(s)) => view[s].display.chart_shown

\* C6: a Load Dataset run in which the path does not resolve leaves the
\* session state as it was and shows the not-found message.
C6_FailedLoadKeepsState ==
    [][\A s \in Sessions :
          (view'[s].pressed = "load" /\ ~view'[s].run.found) =>
              /\ session_state'[s] = session_state[s]
              /\ MsgNotFound \in view'[s].messages]_vars

\* a failed load over a stored table that carries Sentiment values
C6_Witness ==
    \E s \in Sessions :
        /\ view[s].pressed = "load"
        /\ ~view[s].run.found
        /\ Loaded(s)
        /\ Labelled(Table(s)) # {}

\* C7: a failed remote call does not end the batch: with no exception from
\* elsewhere the batch completes, every one of the first min(5, n) rows is
\* labelled, the rows whose call failed hold Neutral and the API error is
\* shown; with one at row i, the i - 1 rows before it were all classified.
C7_FailureIsNeutral ==
    \A s \in Sessions :
        (view[s].pressed = "analyze" /\ view[s].run.failed # {}) =>
            /\ MsgApiError \in view[s].messages
            /\ view[s].run.fault = 0 =>
                  /\ ~view[s].run.raised
                  /\ Labelled(Table(s)) = 1..Min(HeadCount, Table(s).n)
                  /\ \A p \in view[s].run.failed :
                        Table(s).data["Sentiment"][p] = "Neutral"
            /\ view[s].run.fault > 0 =>
                  view[s].run.classified = view[s].run.fault - 1

\* a completed batch in which a remote call failed and a later row was
\* classified by a remote call that succeeded
C7_Witness ==
    \E s \in Sessions :
        /\ Completed(s)
        /\ \E p \in view[s].run.failed :
              \E q \in Labelled(Table(s)) :
                  /\ q > p
                  /\ Table(s).data["Sentiment"][q] = "Positive"
                  /\ view[s].run.made >= 2

\* the number of filtered rows whose Sentiment is v
Occurrences(s, v) ==
    Cardinality({p \in view[s].display.rows :
                    Table(s).data["Sentiment"][p] = v})

RECURSIVE SumCounts(_)
SumCounts(bars) ==
    IF bars = <<>> THEN 0 ELSE bars[1].Count + SumCounts(Tail(bars))

\* the place of a label in the order Negative, Neutral, Positive
Place(v) == CHOOSE i \in 1..3 : <<"Negative", "Neutral", "Positive">>[i] = v

\* C8: when a chart is shown, its categories are exactly the labels that
\* occur among the filtered rows' Sentiment values, in the order Negative,
\* Neutral, Positive, each with its number of occurrences, and the counts sum
\* to the number of filtered rows that carry a Sentiment value.
C8_BarsAreLabelCounts ==
    \A s \in Sessions :
        view[s].display.chart_shown =>
            LET bars == view[s].display.bars IN
            /\ \A i \in 1..Len(bars) : bars[i].Sentiment \in Labels
            /\ {bars[i].Sentiment : i \in 1..Len(bars)} =
                  {v \in Labels : Occurrences(s, v) > 0}
            /\ \A i \in 1..Len(bars) :
                  bars[i].Count = Occurrences(s, bars[i].Sentiment)
            /\ \A i, j \in 1..Len(bars) :
                  i < j => Place(bars[i].Sentiment) < Place(bars[j].Sentiment)
            /\ SumCounts(bars) =
                  Cardinality(view[s].display.rows \cap Labelled(Table(s)))

\* C9 as claimed: after a batch that an exception ended, the error message is
\* shown and every row classified before the exception carries a Sentiment
\* value.
C9_PartialWritesRemain ==
    \A s \in Sessions :
        Interrupted(s) =>
            /\ MsgWrong \in view[s].messages
            /\ 1..view[s].run.classified \subseteq Labelled(Table(s))

\* C9 amended: after a batch that an exception ended, the error message is
\* shown and the session state is the one the button was pressed in: no value
\* of the batch is written.  The values returned before the exception stay in
\* the cache.
C9_InterruptedBatchWritesNothing ==
    \A s \in Sessions :
        Interrupted(s) =>
            /\ MsgWrong \in view[s].messages
            /\ session_state[s] = view[s].run.before
            /\ "comment" \in Columns(Table(s)) =>
                  \A p \in 1..view[s].run.classified :
                      Table(s).data["comment"][p] \in DOMAIN cache

\* a batch ended by an exception after two rows were classified with a remote
\* call made, over a table with no Sentiment column
C9_Witness ==
    \E s \in Sessions :
        /\ Interrupted(s)
        /\ view[s].run.classified >= 2
        /\ view[s].run.made >= 1
        /\ "Sentiment" \notin Columns(Table(s))

\* C10 as claimed: the remote calls an Analyze makes are those it would make
\* were its session the only one.
C10_CallsAsIfAlone ==
    \A s \in Sessions :
        (view[s].pressed = "analyze" /\ view[s].run.ran) =>
            view[s].run.made = view[s].run.solo

\* C10 amended: a run changes the session state, the selection and the
\* display of one session only; the cache is shared, so an Analyze makes at
\* most the remote calls it would make alone, and fewer when another session
\* has classified the text.
C10_SessionStateIsPrivate ==
    [][/\ \E s \in Sessions :
            \A t \in Sessions \ {s} :
                /\ session_state'[t] = session_state[t]
                /\ selected_id'[t] = selected_id[t]
                /\ view'[t] = view[t]
       /\ \A s \in Sessions : view'[s].run.made <= view'[s].run.solo]_vars

\* session B's completed Analyze made no remote call for a text session A
\* had classified, and A's table still carries its values
C10_Witness ==
    /\ Completed("B")
    /\ view["B"].run.made = 0
    /\ view["B"].run.solo = 1
    /\ Loaded("A")
    /\ Labelled(Table("A")) # {}
    /\ Labelled(Table("B")) # {}

====
